---- MODULE Spec2Model ----
(***************************************************************************)
(* Model of the aspect engine of src/astro_analysis.py and of the per-time *)
(* orchestration of src/venus.py.                                          *)
(*                                                                         *)
(* Angles are integers in hundredths of a degree (103.85 degrees is 10385),*)
(* so the exchange chart of the source keeps its values.  Python dicts are *)
(* insertion ordered: a dict that the code iterates is a sequence of       *)
(* entries, a dict that the code only indexes is a function.               *)
(***************************************************************************)
EXTENDS Integers, Sequences, FiniteSets, TLC

VARIABLES
    eph,            \* the ephemeris: instant <<date, time>> -> sampled sky, 0 = raises
    aspect_config,  \* the catalogue of the run (get_user_aspect_config)
    call,           \* arguments of the running calculate_aspects_for_ticker call
    start_date,     \* local start_date (after the swap)
    end_date,       \* local end_date (after the swap)
    ipo_positions,  \* local ipo_positions
    current_date,   \* local current_date
    prev_orbs,      \* local prev_orbs
    results,        \* local results
    pc,             \* position of the call: idle, scan, returned, raised
    returned,       \* the DataFrame the call returned
    lookups,        \* get_planet_longitudes_swe invocations of the call
    observed,       \* history: key -> the dated residuals determine_aspect gave, in scan order
    evaluated,      \* history: the pairs evaluated at the instant sampled last, in loop order
    earlier,        \* history: the last earlier scan that left a filled prev_orbs behind
    diff,           \* determine_aspect: the distance argument
    match,          \* determine_aspect: the returned triple
    fwd,            \* outcome of the call with the endpoints in order
    rev,            \* outcome of the call with the endpoints reversed
    sidebar,        \* <<start_date, end_date>> of the sidebar date inputs
    weekday_time_map, \* normalized_wtm: weekday -> time, skipped weekdays absent
    date_to_time,   \* the dict of build_date_to_time_map
    run,            \* outcome of run_calculations_per_time
    dates_list,     \* run_calculations_per_time: the dates of one time group
    scan_df,        \* run_calculations_per_time: the frame the scan of the group gave
    part,           \* run_calculations_per_time: what is appended to parts for the group
    scans,          \* history: the calls of the scan engine run_calculations_per_time made
    selected_tickers, \* the tickers of the multiselect, in selection order
    ticker_pos,     \* Run Analysis loop: how many tickers the loop has been through
    shown,          \* Run Analysis loop: what the page showed, in order
    lon_a,          \* angular_diff: the argument a, in whole degrees
    lon_b,          \* angular_diff: the argument b, in whole degrees
    distance,       \* angular_diff(a, b)
    distance_rev    \* angular_diff(b, a)

\* The locals of one calculate_aspects_for_ticker call.
frame == <<call, start_date, end_date, ipo_positions, current_date, prev_orbs,
           results, pc, returned, lookups, observed, evaluated, earlier>>

resolver == <<diff, match>>

orders == <<fwd, rev>>

pertime == <<sidebar, weekday_time_map, date_to_time, run, dates_list, scan_df, part, scans>>

batch == <<selected_tickers, ticker_pos, shown>>

circle == <<lon_a, lon_b, distance, distance_rev>>

vars == <<eph, aspect_config, frame, resolver, orders, pertime, batch, circle>>

(***************************************************************************)
(* Bounds and sample inputs                                                *)
(***************************************************************************)
\* Last day of the calendar window; day 0 is Monday 2024-01-29.
MaxDate == 2
\* How many of the ten transit bodies the sampled skies are read for.
NumBodies == 2
\* angular_diff is tried on every pair of whole degrees of -MaxAngle .. MaxAngle.
MaxAngle == 370

Dates == 0 .. MaxDate
None == "None"
NoDate == 0 - 1

\* Hundredths of a degree.
Deg(x) == x * 100

Abs(x) == IF x < 0 THEN -x ELSE x

Min2(x, y) == IF x <= y THEN x ELSE y

(***************************************************************************)
(* Static tables                                                           *)
(***************************************************************************)
TRANSIT_BODIES ==
    <<"sun", "moon", "mercury", "venus", "mars",
      "jupiter", "saturn", "uranus", "neptune", "pluto">>

\* str.capitalize() on the ten body names.
Capitalize(name) ==
    CASE name = "sun" -> "Sun"
      [] name = "moon" -> "Moon"
      [] name = "mercury" -> "Mercury"
      [] name = "venus" -> "Venus"
      [] name = "mars" -> "Mars"
      [] name = "jupiter" -> "Jupiter"
      [] name = "saturn" -> "Saturn"
      [] name = "uranus" -> "Uranus"
      [] name = "neptune" -> "Neptune"
      [] name = "pluto" -> "Pluto"

NYSE_NATAL_POSITIONS ==
    << <<"ASC", 10385>>, <<"MC", 35333>>, <<"Neptune", 20770>>, <<"Mars", 22872>> >>

ASPECT_ANGLES ==
    [Conjunction |-> Deg(0), Opposition |-> Deg(180), Trine |-> Deg(120),
     Sextile |-> Deg(60), Square |-> Deg(90), Quincunx |-> Deg(150),
     Semisextile |-> Deg(30), Semisquare |-> Deg(45), Sesquisquare |-> Deg(135)]

aspect_types ==
    <<"Conjunction", "Opposition", "Trine", "Sextile", "Square",
      "Quincunx", "Semisextile", "Semisquare", "Sesquisquare">>

default_scores ==
    [Conjunction |-> 5, Opposition |-> -5, Trine |-> 3, Sextile |-> 2,
     Square |-> -3, Quincunx |-> -1, Semisextile |-> 1,
     Semisquare |-> -1, Sesquisquare |-> -1]

default_orbs ==
    [Conjunction |-> Deg(5), Opposition |-> Deg(5), Trine |-> Deg(3),
     Sextile |-> Deg(3), Square |-> Deg(3), Quincunx |-> Deg(2),
     Semisextile |-> Deg(2), Semisquare |-> Deg(2), Sesquisquare |-> Deg(2)]

\* The slider loop that fills aspect_orbs: one dict entry per aspect type, in
\* the order of aspect_types.  values gives the slider positions.
SliderDict(values) ==
    [i \in 1 .. Len(aspect_types) |-> <<aspect_types[i], values[aspect_types[i]]>>]

(***************************************************************************)
(* Aspect catalogue and resolver                                           *)
(***************************************************************************)
\* The catalogue keeps the key order of aspect_orbs.
get_user_aspect_config(aspect_orbs, aspect_scores) ==
    [i \in 1 .. Len(aspect_orbs) |->
        LET k == aspect_orbs[i][1]
        IN  [name |-> k,
             angle |-> ASPECT_ANGLES[k],
             orb |-> aspect_orbs[i][2],
             score |-> aspect_scores[k]]]

normalize_angle(deg) == deg % Deg(360)

\* The difference without the wrap at a full turn.
PlainDifference(a, b) == Abs(a - b)

\* The rotation from b to a, in one direction only.
DirectedRotation(a, b) == normalize_angle(a - b)

angular_diff(a, b) ==
    Min2(Min2(Abs(normalize_angle(a - b)), Abs(normalize_angle(b - a))),
         Deg(360) - Abs(normalize_angle(a - b)))

\* The test of one catalogue entry.
WithinOrbStrict(d, cfg) == Abs(d - cfg.angle) < cfg.orb

WithinOrb(d, cfg) == Abs(d - cfg.angle) <= cfg.orb

NoMatch == [name |-> None, orb_diff |-> None, score |-> None]

\* A residual that keeps its sign.
MatchOfSigned(d, cfg) == [name |-> cfg.name, orb_diff |-> d - cfg.angle, score |-> cfg.score]

MatchOf(d, cfg) == [name |-> cfg.name, orb_diff |-> Abs(d - cfg.angle), score |-> cfg.score]

RECURSIVE FirstMatchFrom(_, _, _)
FirstMatchFrom(d, config, i) ==
    IF i > Len(config) THEN NoMatch
    ELSE IF WithinOrb(d, config[i]) THEN MatchOf(d, config[i])
    ELSE FirstMatchFrom(d, config, i + 1)

\* A resolver that prefers the smallest residual over the catalogue order.
BestMatch(d, config) ==
    LET hits == {i \in 1 .. Len(config) : WithinOrb(d, config[i])}
    IN  IF hits = {} THEN NoMatch
        ELSE MatchOf(d, config[CHOOSE i \in hits : \A j \in hits :
                 \/ Abs(d - config[i].angle) < Abs(d - config[j].angle)
                 \/ (Abs(d - config[i].angle) = Abs(d - config[j].angle) /\ i <= j)])

determine_aspect(d, config) == FirstMatchFrom(d, config, 1)

(***************************************************************************)
(* Calendar and ephemeris                                                  *)
(***************************************************************************)
\* date.strftime('%Y-%m-%d') on the days of the window: <<year, month, day>>.
StrfTimeYearMonth(d) == IF d <= 2 THEN <<2024, 1>> ELSE <<2024, 2>>

StrfTime(d) == IF d <= 2 THEN <<2024, 1, 29 + d>> ELSE <<2024, 2, d - 2>>

\* pd.to_datetime on such a text: back to the day of the window.
ParseDate(s) == IF s[2] = 1 THEN s[3] - 29 ELSE s[3] + 2

\* date.weekday(): Monday = 0 .. Sunday = 6.
Weekday(d) == d % 7

\* Times of day, in minutes after midnight.
TenAM == 600
Times == {TenAM, TenAM + 30}
ScanTimes == {TenAM}

\* Sampled skies: the longitudes of the ten bodies, in the order of
\* TRANSIT_BODIES.
SkySamples ==
    << <<0, 0, 200, 4000, 7000, 11000, 16000, 21000, 26000, 31000>>,
       <<0, 200, 500, 4000, 7000, 11000, 16000, 21000, 26000, 31000>>,
       <<1385, 1885, 0, 4000, 7000, 11000, 16000, 21000, 26000, 31000>>,
       <<0, 1000, 1385, 4000, 7000, 11000, 16000, 21000, 26000, 31000>> >>

\* What the ephemeris holds for an instant: a sampled sky, or 0 where the
\* Swiss Ephemeris call raises.
SkyValues == 0 .. Len(SkySamples)

Raises(sky) == sky = 0

\* The positions dict of one instant; raised when swe raises.
get_planet_longitudes_swe(date, time) ==
    IF Raises(eph[<<date, time>>]) THEN [raised |-> TRUE, positions |-> <<>>]
    ELSE [raised |-> FALSE,
          positions |-> [i \in 1 .. NumBodies |->
              <<Capitalize(TRANSIT_BODIES[i]), SkySamples[eph[<<date, time>>]][i]>>]]

(***************************************************************************)
(* calculate_aspects_for_ticker                                            *)
(***************************************************************************)
OutputColumns == <<"Date", "Ticker", "Aspect", "Score", "Source">>

DataFrame(rows, columns) == [columns |-> columns, rows |-> rows]

NoFrame == [columns |-> <<>>, rows |-> <<>>]

\* The reference table: one row per symbol, Date as the text of the file.
SampleIpoTable ==
    << [Ticker |-> "AAA", Date |-> <<2024, 1, 29>>],
       [Ticker |-> "BBB", Date |-> <<2024, 1, 30>>] >>
Tickers == {"AAA", "ZZZ"}

RECURSIVE SelectFrom(_, _, _)
SelectFrom(df, ticker, i) ==
    IF i > Len(df) THEN <<>>
    ELSE IF df[i].Ticker = ticker THEN <<df[i]>> \o SelectFrom(df, ticker, i + 1)
    ELSE SelectFrom(df, ticker, i + 1)

\* A selection that forgets the test on the Ticker column.
SelectAnyRow(df, ticker) == df

\* df_ipo[df_ipo['Ticker'] == ticker]
SelectTicker(df, ticker) == SelectFrom(df, ticker, 1)

\* Endpoints taken as given.
OrderedAsGiven(s, e) == <<s, e>>

\* The swap of reversed endpoints.
OrderedRange(s, e) == IF s > e THEN <<e, s>> ELSE <<s, e>>

\* The text of the Aspect column, as its parts; the residual is kept exact
\* where the text prints it to one decimal.
AspectText(source, a, aspect, b, orb_diff, score) ==
    IF source = "Transit" THEN <<a, aspect, b, orb_diff, score>>
    ELSE <<a, aspect, source, b, orb_diff, score>>

Row(date, ticker, source, a, b, m) ==
    [Date |-> StrfTime(date),
     Ticker |-> ticker,
     Aspect |-> AspectText(source, a, m.name, b, m.orb_diff, m.score),
     Score |-> m.score,
     Source |-> source]

\* A guard that lets only the first match of a key through.
EmitsFirstOnly(key, orb_diff, prev) == key \notin DOMAIN prev

\* Line 113: the guard of results.append.
Emits(key, orb_diff, prev) ==
    key \notin DOMAIN prev \/ orb_diff < prev[key]

\* A store that keeps the smallest residual of the key.
RememberSmallest(prev, key, orb_diff) ==
    (key :> (IF key \in DOMAIN prev THEN Min2(prev[key], orb_diff) ELSE orb_diff)) @@ prev

\* prev_orbs[key] = orb_diff, written for every match.
Remember(prev, key, orb_diff) == (key :> orb_diff) @@ prev

Observe(obs, key, date, orb_diff) ==
    (key :> ((IF key \in DOMAIN obs THEN obs[key] ELSE <<>>)
                \o <<[date |-> date, orb_diff |-> orb_diff]>>)) @@ obs

\* One pair of the three loops: p = [source, a, adeg, b, bdeg];
\* st = [prev_orbs, results, observed, evaluated].
EvaluatePair(p, date, ticker, config, st) ==
    LET d == angular_diff(p.adeg, p.bdeg)
        m == determine_aspect(d, config)
        key == <<p.source, p.a, p.b, m.name>>
        seen == Append(st.evaluated, <<p.source, p.a, p.b>>)
    IN  IF m.name = None THEN [st EXCEPT !.evaluated = seen]
        ELSE [prev_orbs |-> Remember(st.prev_orbs, key, m.orb_diff),
              results |-> IF Emits(key, m.orb_diff, st.prev_orbs)
                          THEN Append(st.results, Row(date, ticker, p.source, p.a, p.b, m))
                          ELSE st.results,
              observed |-> Observe(st.observed, key, date, m.orb_diff),
              evaluated |-> seen]

Pair(source, a, b) ==
    [source |-> source, a |-> a[1], adeg |-> a[2], b |-> b[1], bdeg |-> b[2]]

RECURSIVE Concat(_, _)
Concat(seqs, i) == IF i > Len(seqs) THEN <<>> ELSE seqs[i] \o Concat(seqs, i + 1)

\* for each transit body: every natal point, then every exchange point.
NatalPairs(transit, natal) ==
    Concat([i \in 1 .. Len(transit) |->
               [j \in 1 .. Len(natal) |-> Pair("IPO", transit[i], natal[j])]
               \o [j \in 1 .. Len(NYSE_NATAL_POSITIONS) |->
                      Pair("NYSE", transit[i], NYSE_NATAL_POSITIONS[j])]], 1)

\* for i: for j in range(n), the body itself left out
AllOrderedPairs(transit) ==
    Concat([i \in 1 .. Len(transit) |->
               SelectSeq([j \in 1 .. Len(transit) |-> Pair("Transit", transit[i], transit[j])],
                         LAMBDA q : q.a # q.b)], 1)

\* for i: for j in range(i + 1, n)
TransitPairs(transit) ==
    Concat([i \in 1 .. Len(transit) |->
               [k \in 1 .. Len(transit) - i |->
                   Pair("Transit", transit[i], transit[i + k])]], 1)

PairsAt(transit, natal) == NatalPairs(transit, natal) \o TransitPairs(transit)

\* The pairs in loop order, each on the state the one before left.  (The
\* singleton sets make TLC compute a state before it is passed on.)
RECURSIVE EvaluateFrom(_, _, _, _, _, _)
EvaluateFrom(pairs, i, date, ticker, config, st) ==
    IF i > Len(pairs) THEN st
    ELSE CHOOSE r \in {EvaluateFrom(pairs, i + 1, date, ticker, config, x) :
                          x \in {EvaluatePair(pairs[i], date, ticker, config, st)}} : TRUE

\* The body of the while loop for one date, given the transit positions.
SampleInstant(transit, natal, date, ticker, config, st) ==
    EvaluateFrom(PairsAt(transit, natal), 1, date, ticker, config,
                 [st EXCEPT !.evaluated = <<>>])

(***************************************************************************)
(* The call, step by step: entry, one date per step, return                *)
(***************************************************************************)
EmptyState == [prev_orbs |-> <<>>, results |-> <<>>, observed |-> <<>>, evaluated |-> <<>>]

\* Accumulators that outlive the call that filled them.
SharedAccumulator(old) == old

\* Lines 99-100: results = [] and prev_orbs = {} are new objects of the call,
\* whatever an earlier call left.
NewAccumulator(old) == EmptyState

NoEarlier == [ticker |-> None, time_of_day |-> NoDate]

NoCall == [ticker |-> None, start_date |-> NoDate, end_date |-> NoDate, time_of_day |-> NoDate]

NotRun == [status |-> "none", frame |-> NoFrame]

Idle ==
    /\ call = NoCall
    /\ start_date = NoDate
    /\ end_date = NoDate
    /\ ipo_positions = <<>>
    /\ current_date = NoDate
    /\ prev_orbs = <<>>
    /\ results = <<>>
    /\ pc = "idle"
    /\ returned = NoFrame
    /\ lookups = 0
    /\ observed = <<>>
    /\ evaluated = <<>>
    /\ earlier = NoEarlier

Unused ==
    /\ diff = 0
    /\ match = NoMatch
    /\ fwd = NotRun
    /\ rev = NotRun
    /\ sidebar = <<NoDate, NoDate>>
    /\ weekday_time_map = <<>>
    /\ date_to_time = <<>>
    /\ run = NotRun
    /\ dates_list = <<>>
    /\ scan_df = NoFrame
    /\ part = NoFrame
    /\ scans = <<>>

NoBatch ==
    /\ selected_tickers = <<>>
    /\ ticker_pos = 0
    /\ shown = <<>>

NoCircle ==
    /\ lon_a = 0
    /\ lon_b = 0
    /\ distance = NoDate
    /\ distance_rev = NoDate

\* The two orb settings of the sampled runs: the slider defaults, and every
\* slider at its maximum of 10 degrees.
OrbSettings == {default_orbs, [n \in DOMAIN default_orbs |-> Deg(10)]}

Catalogues ==
    {get_user_aspect_config(SliderDict(orbs), default_scores) : orbs \in OrbSettings}

Init ==
    /\ eph \in [Dates \X ScanTimes -> SkyValues]
    /\ aspect_config \in Catalogues
    /\ Idle
    /\ NoBatch
    /\ NoCircle
    /\ Unused

\* Lines 87-100: the reference row, the swap, the reference positions.
Enter(ticker, df_ipo, s, e, t) ==
    LET ipo_row == SelectTicker(df_ipo, ticker)
        range == OrderedRange(s, e)
    IN  IF ipo_row = <<>>
        THEN [pc |-> "returned", start_date |-> NoDate, end_date |-> NoDate,
              ipo_positions |-> <<>>, current_date |-> NoDate, lookups |-> 0]
        ELSE LET natal == get_planet_longitudes_swe(ParseDate(ipo_row[1].Date), t)
             IN  IF natal.raised
                 THEN [pc |-> "raised", start_date |-> range[1], end_date |-> range[2],
                       ipo_positions |-> <<>>, current_date |-> NoDate, lookups |-> 1]
                 ELSE [pc |-> "scan", start_date |-> range[1], end_date |-> range[2],
                       ipo_positions |-> natal.positions, current_date |-> range[1],
                       lookups |-> 1]

Call(ticker, s, e, t) ==
    /\ pc = "idle"
    /\ call' = [ticker |-> ticker, start_date |-> s, end_date |-> e, time_of_day |-> t]
    /\ LET en == Enter(ticker, SampleIpoTable, s, e, t)
       IN  /\ pc' = en.pc
           /\ start_date' = en.start_date
           /\ end_date' = en.end_date
           /\ ipo_positions' = en.ipo_positions
           /\ current_date' = en.current_date
           /\ lookups' = en.lookups
           /\ returned' = IF en.pc = "returned" THEN DataFrame(<<>>, OutputColumns)
                          ELSE returned
           /\ LET acc == IF en.pc = "scan"
                         THEN NewAccumulator([prev_orbs |-> prev_orbs, results |-> results,
                                              observed |-> observed, evaluated |-> evaluated])
                         ELSE EmptyState
              IN  /\ prev_orbs' = acc.prev_orbs
                  /\ results' = acc.results
                  /\ observed' = acc.observed
                  /\ evaluated' = acc.evaluated
    /\ UNCHANGED <<eph, aspect_config, batch, circle, earlier, resolver, orders, pertime>>

\* Lines 103-158: one pass of the while loop.
ScanDay ==
    /\ pc = "scan"
    /\ current_date <= end_date
    /\ lookups' = lookups + 1
    /\ LET transit == get_planet_longitudes_swe(current_date, call.time_of_day)
       IN  IF transit.raised
           THEN /\ pc' = "raised"
                /\ UNCHANGED <<current_date, prev_orbs, results, observed, evaluated>>
           ELSE LET st == SampleInstant(transit.positions, ipo_positions, current_date,
                                        call.ticker, aspect_config,
                                        [prev_orbs |-> prev_orbs, results |-> results,
                                         observed |-> observed, evaluated |-> evaluated])
                IN  /\ prev_orbs' = st.prev_orbs
                    /\ results' = st.results
                    /\ observed' = st.observed
                    /\ evaluated' = st.evaluated
                    /\ current_date' = current_date + 1
                    /\ pc' = pc
    /\ UNCHANGED <<eph, aspect_config, batch, circle, call, start_date, end_date, ipo_positions,
                   returned, earlier, resolver, orders, pertime>>

\* Line 160: the loop is over.
Return ==
    /\ pc = "scan"
    /\ current_date > end_date
    /\ pc' = "returned"
    /\ returned' = DataFrame(results, OutputColumns)
    /\ UNCHANGED <<eph, aspect_config, batch, circle, call, start_date, end_date, ipo_positions,
                   current_date, prev_orbs, results, lookups, observed, evaluated, earlier,
                   resolver, orders, pertime>>

\* The call is over and the caller is ready for the next one.  Nothing is
\* done to the accumulators of the call: what a later call sees of them is
\* decided where that call creates its own.
Finish ==
    /\ pc \in {"returned", "raised"}
    /\ call' = NoCall
    /\ start_date' = NoDate
    /\ end_date' = NoDate
    /\ ipo_positions' = <<>>
    /\ current_date' = NoDate
    /\ pc' = "idle"
    /\ returned' = NoFrame
    /\ lookups' = 0
    /\ earlier' = IF prev_orbs # <<>>
                  THEN [ticker |-> call.ticker, time_of_day |-> call.time_of_day]
                  ELSE earlier
    /\ UNCHANGED <<eph, aspect_config, batch, circle, prev_orbs, results, observed,
                   evaluated, resolver, orders, pertime>>

\* One call.
Next ==
    \/ \E ticker \in Tickers, s \in Dates, e \in Dates, t \in ScanTimes : Call(ticker, s, e, t)
    \/ ScanDay
    \/ Return

Spec == Init /\ [][Next]_vars

(***************************************************************************)
(* Calls one after another: other symbols, other times, then the scan      *)
(***************************************************************************)
\* The symbols of the table and one that is not in it.
IsolationTickers == Tickers \cup {"BBB"}

\* Skies of the sampled sequences of calls: the first or the second sky at
\* the first time of day, the second sky at the other.
IsolationEphemerides ==
    {[x \in Dates \X Times |-> IF x[2] = TenAM THEN f[x[1]] ELSE 2] : f \in [Dates -> 1 .. 2]}

InitIsolation ==
    /\ eph \in IsolationEphemerides
    /\ aspect_config = get_user_aspect_config(SliderDict(default_orbs), default_scores)
    /\ Idle
    /\ NoBatch
    /\ NoCircle
    /\ Unused

NextIsolation ==
    \/ \E ticker \in IsolationTickers, s \in Dates, e \in Dates, t \in Times :
           Call(ticker, s, e, t)
    \/ ScanDay
    \/ Return
    \/ Finish

SpecIsolation == InitIsolation /\ [][NextIsolation]_vars

(***************************************************************************)
(* The call as a whole                                                     *)
(***************************************************************************)
RECURSIVE ScanFrom(_, _, _, _, _, _, _)
ScanFrom(date, last, t, natal, ticker, config, acc) ==
    IF date > last THEN [status |-> "returned", frame |-> DataFrame(acc.results, OutputColumns)]
    ELSE LET transit == get_planet_longitudes_swe(date, t)
         IN  IF transit.raised THEN [status |-> "raised", frame |-> NoFrame]
             ELSE CHOOSE r \in {ScanFrom(date + 1, last, t, natal, ticker, config, x) :
                     x \in {SampleInstant(transit.positions, natal, date, ticker, config, acc)}} : TRUE

calculate_aspects_for_ticker(ticker, df_ipo, s, e, t, config) ==
    LET en == Enter(ticker, df_ipo, s, e, t)
    IN  CASE en.pc = "returned" -> [status |-> "returned", frame |-> DataFrame(<<>>, OutputColumns)]
          [] en.pc = "raised" -> [status |-> "raised", frame |-> NoFrame]
          [] OTHER -> ScanFrom(en.current_date, en.end_date, t, en.ipo_positions,
                               ticker, config, EmptyState)

(***************************************************************************)
(* The same range asked for in both orders                                 *)
(***************************************************************************)
InitOrder ==
    /\ eph \in [Dates \X ScanTimes -> SkyValues]
    /\ aspect_config \in Catalogues
    /\ Idle
    /\ NoBatch
    /\ NoCircle
    /\ Unused

\* The call with the endpoints d1 < d2 in order.
CallInOrder(ticker, d1, d2, t) ==
    /\ call = NoCall
    /\ d1 < d2
    /\ call' = [ticker |-> ticker, start_date |-> d1, end_date |-> d2, time_of_day |-> t]
    /\ fwd' = calculate_aspects_for_ticker(ticker, SampleIpoTable, d1, d2, t, aspect_config)
    /\ UNCHANGED <<eph, aspect_config, batch, circle, start_date, end_date, ipo_positions, current_date,
                   prev_orbs, results, pc, returned, lookups, observed, evaluated, earlier,
                   resolver, rev, pertime>>

\* The call with the same endpoints reversed.
CallReversed ==
    /\ call # NoCall
    /\ rev = NotRun
    /\ rev' = calculate_aspects_for_ticker(call.ticker, SampleIpoTable, call.end_date,
                                           call.start_date, call.time_of_day, aspect_config)
    /\ UNCHANGED <<eph, aspect_config, batch, circle, frame, resolver, fwd, pertime>>

NextOrder ==
    \/ \E ticker \in Tickers, d1 \in Dates, d2 \in Dates, t \in ScanTimes :
           CallInOrder(ticker, d1, d2, t)
    \/ CallReversed

SpecOrder == InitOrder /\ [][NextOrder]_vars

(***************************************************************************)
(* venus.py: the date -> time map and one scan per time                    *)
(***************************************************************************)
\* A weekday without a time.
NoTime == 0 - 1

\* Line 203: the weekdays that have a time.
Normalize(wtm) == [wd \in {w \in DOMAIN wtm : wtm[w] # NoTime} |-> wtm[wd]]

\* dates_between: start_d, start_d + 1, ..., end_d; nothing when start_d > end_d.
dates_between(start_d, end_d) ==
    [i \in 1 .. (IF start_d <= end_d THEN end_d - start_d + 1 ELSE 0) |-> start_d + i - 1]

RECURSIVE MapFrom(_, _, _)
MapFrom(days, i, wtm) ==
    IF i > Len(days) THEN <<>>
    ELSE IF Weekday(days[i]) \in DOMAIN wtm
         THEN << <<days[i], wtm[Weekday(days[i])]>> >> \o MapFrom(days, i + 1, wtm)
         ELSE MapFrom(days, i + 1, wtm)

\* The dict date -> time, in date order.
build_date_to_time_map(start_d, end_d, wtm) == MapFrom(dates_between(start_d, end_d), 1, wtm)

\* time_groups after the loop of lines 60-61: one entry per time, in the
\* order the times first appear, each with its dates in map order.
RECURSIVE GroupFrom(_, _, _)
GroupFrom(map, i, groups) ==
    IF i > Len(map) THEN groups
    ELSE LET d == map[i][1]
             t == map[i][2]
             at == {k \in 1 .. Len(groups) : groups[k].t = t}
         IN  IF at = {}
             THEN GroupFrom(map, i + 1, Append(groups, [t |-> t, dates |-> <<d>>]))
             ELSE GroupFrom(map, i + 1,
                      [k \in 1 .. Len(groups) |->
                          IF k \in at THEN [t |-> t, dates |-> Append(groups[k].dates, d)]
                          ELSE groups[k]])

time_groups(map) == GroupFrom(map, 1, <<>>)

Elems(seq) == {seq[i] : i \in 1 .. Len(seq)}

MinOf(seq) == CHOOSE x \in Elems(seq) : \A y \in Elems(seq) : x <= y

MaxOf(seq) == CHOOSE x \in Elems(seq) : \A y \in Elems(seq) : x >= y

\* The parameter names of calculate_aspects_for_ticker and the keywords the
\* call of lines 69-76 passes.
EngineParameters ==
    {"ticker", "df_ipo", "start_date", "end_date", "time_of_day", "aspect_config"}

CallKeywords ==
    {"ticker", "matched_df", "start_date", "end_date", "time_of_day", "aspect_config"}

\* Python binds a keyword call only when every keyword names a parameter;
\* otherwise the call raises TypeError before the body runs.
EngineCall(ticker, matched_df, s, e, t, config) ==
    IF CallKeywords \subseteq EngineParameters
    THEN calculate_aspects_for_ticker(ticker, matched_df, s, e, t, config)
    ELSE [status |-> "raised", frame |-> NoFrame]

DatetimeCandidates == <<"Datetime", "Timestamp", "DateTime", "dt", "date_time">>

\* Lines 82-86: the first candidate that is a column, or None.
DatetimeColumn(columns) ==
    LET found == {i \in 1 .. Len(DatetimeCandidates) : DatetimeCandidates[i] \in Elems(columns)}
    IN  IF found = {} THEN None
        ELSE DatetimeCandidates[CHOOSE i \in found : \A j \in found : i <= j]

RECURSIVE KeepFrom(_, _, _, _)
KeepFrom(rows, i, column, keep_dates) ==
    IF i > Len(rows) THEN <<>>
    ELSE IF ParseDate(rows[i][column]) \in keep_dates
         THEN <<rows[i]>> \o KeepFrom(rows, i + 1, column, keep_dates)
         ELSE KeepFrom(rows, i + 1, column, keep_dates)

\* Lines 78-109: what is appended to parts for the frame of one group.  With
\* a candidate column the rows are selected on it; with a Date column and no
\* candidate the frame gains the column _result_date and keeps every row
\* (datetime_col is still None at line 105); a frame with neither is appended
\* as it is (the coercion loop of lines 93-99 finds no column in it).
KeepGroupRows(frame_in, dates) ==
    LET datetime_col == DatetimeColumn(frame_in.columns)
    IN  IF datetime_col # None
        THEN DataFrame(KeepFrom(frame_in.rows, 1, datetime_col, Elems(dates)), frame_in.columns)
        ELSE IF "Date" \in Elems(frame_in.columns)
        THEN DataFrame([i \in 1 .. Len(frame_in.rows) |->
                           ("_result_date" :> ParseDate(frame_in.rows[i].Date))
                               @@ frame_in.rows[i]],
                       Append(frame_in.columns, "_result_date"))
        ELSE frame_in

\* pd.concat(parts, ignore_index=True): the rows in order; the columns of the
\* parts, each once, in the order they first appear.
RECURSIVE ConcatFrames(_, _, _)
ConcatFrames(parts, i, acc) ==
    IF i > Len(parts) THEN acc
    ELSE ConcatFrames(parts, i + 1,
             DataFrame(acc.rows \o parts[i].rows,
                       acc.columns \o SelectSeq(parts[i].columns,
                                                LAMBDA c : c \notin Elems(acc.columns))))

\* Lines 63-113: the loop over the groups; an exception of the scan leaves
\* the function.
RECURSIVE RunGroups(_, _, _, _, _, _)
RunGroups(groups, i, ticker, matched_df, config, parts) ==
    IF i > Len(groups)
    THEN [status |-> "returned",
          frame |-> IF parts = <<>> THEN NoFrame ELSE ConcatFrames(parts, 1, NoFrame)]
    ELSE LET scan == EngineCall(ticker, matched_df, MinOf(groups[i].dates),
                                MaxOf(groups[i].dates), groups[i].t, config)
         IN  IF scan.status = "raised" THEN [status |-> "raised", frame |-> NoFrame]
             ELSE RunGroups(groups, i + 1, ticker, matched_df, config,
                            Append(parts, KeepGroupRows(scan.frame, groups[i].dates)))

\* The calls of lines 69-76 in the order the loop makes them, each with its
\* arguments and with how it ended; the first call that raises is the last.
RECURSIVE ScansFrom(_, _, _, _, _)
ScansFrom(groups, i, ticker, matched_df, config) ==
    IF i > Len(groups) THEN <<>>
    ELSE LET scan == EngineCall(ticker, matched_df, MinOf(groups[i].dates),
                                MaxOf(groups[i].dates), groups[i].t, config)
             this == [ticker |-> ticker, start_date |-> MinOf(groups[i].dates),
                      end_date |-> MaxOf(groups[i].dates), time_of_day |-> groups[i].t,
                      status |-> scan.status]
         IN  IF scan.status = "raised" THEN <<this>>
             ELSE <<this>> \o ScansFrom(groups, i + 1, ticker, matched_df, config)

run_calculations_per_time(ticker, matched_df, map, config) ==
    IF map = <<>> THEN [status |-> "returned", frame |-> NoFrame]
    ELSE RunGroups(time_groups(map), 1, ticker, matched_df, config, <<>>)

\* The sidebar defaults of "Different time per weekday": Monday to Friday at
\* 10:00, the weekend off.
SidebarDefault(wd) == IF wd <= 4 THEN TenAM ELSE NoTime

\* Sampled sidebar settings: any choice for the weekdays of the window, the
\* default for the others.
WeekdayMaps ==
    {m \in [0 .. 6 -> Times \cup {NoTime}] :
        \A wd \in 0 .. 6 : wd \notin {Weekday(d) : d \in Dates} => m[wd] = SidebarDefault(wd)}

\* Skies of the sampled per-time runs.
PerTimeSkies == {1, 2}

InitPerTime ==
    /\ eph \in [Dates \X Times -> PerTimeSkies]
    /\ aspect_config = get_user_aspect_config(SliderDict(default_orbs), default_scores)
    /\ Idle
    /\ NoBatch
    /\ NoCircle
    /\ diff = 0
    /\ match = NoMatch
    /\ fwd = NotRun
    /\ rev = NotRun
    /\ sidebar \in Dates \X Dates
    /\ weekday_time_map \in WeekdayMaps
    /\ date_to_time = <<>>
    /\ run = NotRun
    /\ dates_list = <<>>
    /\ scan_df = NoFrame
    /\ part = NoFrame
    /\ scans = <<>>

\* Lines 203-204.
BuildDateToTime ==
    /\ run = NotRun
    /\ date_to_time' = build_date_to_time_map(sidebar[1], sidebar[2], Normalize(weekday_time_map))
    /\ run' = [status |-> "mapped", frame |-> NoFrame]
    /\ UNCHANGED <<eph, aspect_config, batch, circle, frame, resolver, orders, sidebar, weekday_time_map,
                   dates_list, scan_df, part, scans>>

\* Lines 206-207: nothing to scan.
Warn ==
    /\ run.status = "mapped"
    /\ date_to_time = <<>>
    /\ run' = [status |-> "warned", frame |-> NoFrame]
    /\ UNCHANGED <<eph, aspect_config, batch, circle, frame, resolver, orders, sidebar, weekday_time_map,
                   date_to_time, dates_list, scan_df, part, scans>>

\* Lines 213-218: run_calculations_per_time for one ticker.
RunCalculations(ticker) ==
    /\ run.status = "mapped"
    /\ date_to_time # <<>>
    /\ run' = run_calculations_per_time(ticker, SampleIpoTable, date_to_time, aspect_config)
    /\ scans' = ScansFrom(time_groups(date_to_time), 1, ticker, SampleIpoTable, aspect_config)
    /\ UNCHANGED <<eph, aspect_config, batch, circle, frame, resolver, orders, sidebar, weekday_time_map,
                   date_to_time, dates_list, scan_df, part>>

NextPerTime ==
    \/ BuildDateToTime
    \/ Warn
    \/ \E ticker \in Tickers : RunCalculations(ticker)

SpecPerTime == InitPerTime /\ [][NextPerTime]_vars

(***************************************************************************)
(* venus.py: the Run Analysis loop over the selected tickers               *)
(***************************************************************************)
\* What the multiselect can hold: tickers of the table, none twice.
Selections ==
    {<<>>} \cup {<<x>> : x \in Tickers}
           \cup {<<x, y>> : <<x, y>> \in {q \in Tickers \X Tickers : q[1] # q[2]}}

Shown(kind, ticker) == [kind |-> kind, ticker |-> ticker]

\* An except clause that takes nothing.
NoExceptClause(r) == IF r.status = "raised" THEN "uncaught" ELSE "none"

\* Lines 211 and 238: except Exception takes whatever the try body raised.
ExceptClause(r) == IF r.status = "raised" THEN "caught" ELSE "none"

\* Lines 213-239: what the try statement shows for one ticker.
TryAnalysis(ticker, r) ==
    CASE ExceptClause(r) = "caught" -> <<Shown("error", ticker)>>
      [] ExceptClause(r) = "uncaught" -> <<>>
      [] OTHER -> IF r.frame.rows = <<>> THEN <<Shown("info", ticker)>>
                  ELSE <<Shown("tables", ticker)>>

InitBatch ==
    /\ eph \in [Dates \X Times -> {1}]
    /\ aspect_config = get_user_aspect_config(SliderDict(default_orbs), default_scores)
    /\ Idle
    /\ NoCircle
    /\ diff = 0
    /\ match = NoMatch
    /\ fwd = NotRun
    /\ rev = NotRun
    /\ sidebar \in Dates \X Dates
    /\ weekday_time_map \in WeekdayMaps
    /\ date_to_time = <<>>
    /\ run = NotRun
    /\ dates_list = <<>>
    /\ scan_df = NoFrame
    /\ part = NoFrame
    /\ scans = <<>>
    /\ selected_tickers \in Selections
    /\ ticker_pos = 0
    /\ shown = <<>>

\* Lines 209-239: one pass of the loop; an exception that the try statement
\* does not take ends the script run.
AnalyseTicker ==
    /\ run.status = "mapped"
    /\ date_to_time # <<>>
    /\ ticker_pos < Len(selected_tickers)
    /\ LET ticker == selected_tickers[ticker_pos + 1]
           r == run_calculations_per_time(ticker, SampleIpoTable, date_to_time, aspect_config)
       IN  /\ shown' = shown \o <<Shown("heading", ticker)>> \o TryAnalysis(ticker, r)
           /\ IF ExceptClause(r) = "uncaught"
              THEN /\ run' = [status |-> "crashed", frame |-> NoFrame]
                   /\ ticker_pos' = ticker_pos
              ELSE /\ run' = run
                   /\ ticker_pos' = ticker_pos + 1
    /\ UNCHANGED <<eph, aspect_config, circle, frame, resolver, orders, sidebar,
                   weekday_time_map, date_to_time, dates_list, scan_df, part, scans,
                   selected_tickers>>

NextBatch ==
    \/ BuildDateToTime
    \/ Warn
    \/ AnalyseTicker

SpecBatch == InitBatch /\ [][NextBatch]_vars

(***************************************************************************)
(* Lines 78-109 on the frame the scan of one time group gives              *)
(***************************************************************************)
InitFilter ==
    /\ eph \in [Dates \X Times -> PerTimeSkies]
    /\ aspect_config = get_user_aspect_config(SliderDict(default_orbs), default_scores)
    /\ Idle
    /\ NoBatch
    /\ NoCircle
    /\ diff = 0
    /\ match = NoMatch
    /\ fwd = NotRun
    /\ rev = NotRun
    /\ sidebar \in Dates \X Dates
    /\ weekday_time_map \in WeekdayMaps
    /\ date_to_time = build_date_to_time_map(sidebar[1], sidebar[2], Normalize(weekday_time_map))
    /\ run = NotRun
    /\ \E g \in Elems(time_groups(date_to_time)) :
           /\ dates_list = g.dates
           /\ scan_df = calculate_aspects_for_ticker("AAA", SampleIpoTable, MinOf(g.dates),
                                                     MaxOf(g.dates), g.t, aspect_config).frame
    /\ part = NoFrame
    /\ scans = <<>>

KeepRows ==
    /\ run = NotRun
    /\ part' = KeepGroupRows(scan_df, dates_list)
    /\ run' = [status |-> "kept", frame |-> NoFrame]
    /\ UNCHANGED <<eph, aspect_config, batch, circle, frame, resolver, orders, sidebar, weekday_time_map,
                   date_to_time, dates_list, scan_df, scans>>

NextFilter == KeepRows

SpecFilter == InitFilter /\ [][NextFilter]_vars

(***************************************************************************)
(* determine_aspect on sampled catalogues and distances                    *)
(***************************************************************************)
\* Orb slider positions tried for each aspect type.
OrbSamples == {Deg(2), Deg(10)}

\* Distances tried: every whole degree of [0, 180].
DistanceSamples == {Deg(x) : x \in 0 .. 180}

InitAspect ==
    /\ eph = <<>>
    /\ \E orbs \in [DOMAIN default_orbs -> OrbSamples] :
           aspect_config = get_user_aspect_config(SliderDict(orbs), default_scores)
    /\ Idle
    /\ NoBatch
    /\ NoCircle
    /\ diff \in DistanceSamples
    /\ match = NoMatch
    /\ fwd = NotRun
    /\ rev = NotRun
    /\ sidebar = <<NoDate, NoDate>>
    /\ weekday_time_map = <<>>
    /\ date_to_time = <<>>
    /\ run = NotRun
    /\ dates_list = <<>>
    /\ scan_df = NoFrame
    /\ part = NoFrame
    /\ scans = <<>>

Resolve ==
    /\ pc = "idle"
    /\ match' = determine_aspect(diff, aspect_config)
    /\ pc' = "resolved"
    /\ UNCHANGED <<eph, aspect_config, batch, circle, call, start_date, end_date, ipo_positions,
                   current_date, prev_orbs, results, returned, lookups, observed,
                   evaluated, earlier, diff,
                   orders, pertime>>

NextAspect == Resolve

SpecAspect == InitAspect /\ [][NextAspect]_vars

(***************************************************************************)
(* angular_diff on sampled whole degrees                                   *)
(***************************************************************************)
AngleSamples == (0 - MaxAngle) .. MaxAngle

InitCircle ==
    /\ eph = <<>>
    /\ aspect_config = get_user_aspect_config(SliderDict(default_orbs), default_scores)
    /\ Idle
    /\ NoBatch
    /\ Unused
    /\ lon_a \in AngleSamples
    /\ lon_b \in AngleSamples
    /\ distance = NoDate
    /\ distance_rev = NoDate

Measure ==
    /\ pc = "idle"
    /\ distance' = angular_diff(Deg(lon_a), Deg(lon_b))
    /\ distance_rev' = angular_diff(Deg(lon_b), Deg(lon_a))
    /\ pc' = "measured"
    /\ UNCHANGED <<eph, aspect_config, batch, call, start_date, end_date, ipo_positions,
                   current_date, prev_orbs, results, returned, lookups, observed,
                   evaluated, earlier, resolver, orders, pertime, lon_a, lon_b>>

NextCircle == Measure

SpecCircle == InitCircle /\ [][NextCircle]_vars

(***************************************************************************)
(* Properties                                                              *)
(***************************************************************************)
\* The key and the residual a row was emitted for, read off its columns.
KeyOfRow(r) ==
    IF r.Source = "Transit"
    THEN <<r.Source, r.Aspect[1], r.Aspect[3], r.Aspect[2]>>
    ELSE <<r.Source, r.Aspect[1], r.Aspect[4], r.Aspect[2]>>

ResidualOfRow(r) == IF r.Source = "Transit" THEN r.Aspect[4] ELSE r.Aspect[5]

\* C1: tightest orb wins -- the residuals of the rows emitted for one key are
\* strictly decreasing in emission order.
C1_TightestOrbWins ==
    \A i \in 1 .. Len(results) : \A j \in 1 .. Len(results) :
        (i < j /\ KeyOfRow(results[i]) = KeyOfRow(results[j]))
            => ResidualOfRow(results[j]) < ResidualOfRow(results[i])

\* C2: deduplication -- in the rows of one call, a key has at most one row per
\* calendar date.
C2_OneRowPerKeyPerDate ==
    \A i \in 1 .. Len(results) : \A j \in 1 .. Len(results) :
        (i # j /\ KeyOfRow(results[i]) = KeyOfRow(results[j]))
            => results[i].Date # results[j].Date

\* A call returned two rows of one key, dated on different days.
C2_Witness ==
    /\ pc = "returned"
    /\ returned.rows = results
    /\ \E i \in 1 .. Len(results) : \E j \in 1 .. Len(results) :
           /\ i < j
           /\ KeyOfRow(results[i]) = KeyOfRow(results[j])
           /\ results[i].Date # results[j].Date

\* C6: partial-failure tolerance -- an ephemeris failure at an instant of the
\* date range is skipped and the scan goes on: the call is never left by the
\* exception of a lookup made for a date of the range.
C6_PartialFailureTolerance ==
    ~(pc = "raised" /\ current_date # NoDate)

\* The catalogue entry of a name.
EntryOf(config, name) == CHOOSE e \in {config[i] : i \in 1 .. Len(config)} : e.name = name

\* The positions of the canonical order whose entry the distance qualifies for.
Qualifying(d, config) ==
    {i \in 1 .. Len(aspect_types) :
        Abs(d - ASPECT_ANGLES[aspect_types[i]]) <= EntryOf(config, aspect_types[i]).orb}

Earliest(S) == CHOOSE i \in S : \A j \in S : i <= j

\* C3: first match wins -- the resolver returns the earliest qualifying entry
\* of the canonical nine-aspect order, and no match when none qualifies.
C3_FirstMatchWins ==
    pc = "resolved" =>
        IF Qualifying(diff, aspect_config) = {}
        THEN match.name = None
        ELSE /\ match.name = aspect_types[Earliest(Qualifying(diff, aspect_config))]
             /\ match.orb_diff = Abs(diff - ASPECT_ANGLES[match.name])

\* A later entry qualifies with a smaller residual than the returned one.
C3_Witness ==
    /\ pc = "resolved"
    /\ match.name # None
    /\ \E i \in Qualifying(diff, aspect_config) :
           /\ i > Earliest(Qualifying(diff, aspect_config))
           /\ Abs(diff - ASPECT_ANGLES[aspect_types[i]]) < match.orb_diff

\* C4: inclusive orb boundary -- an entry at residual = orb matches (it is
\* returned unless an earlier entry qualifies), and the returned entry is never
\* one at residual > orb.
C4_InclusiveBoundary ==
    pc = "resolved" =>
        /\ \A i \in 1 .. Len(aspect_config) :
               Abs(diff - aspect_config[i].angle) = aspect_config[i].orb
                   => /\ match.name # None
                      /\ \E j \in 1 .. i : aspect_config[j].name = match.name
        /\ match.name # None =>
               ~(Abs(diff - EntryOf(aspect_config, match.name).angle)
                     > EntryOf(aspect_config, match.name).orb)

\* The returned entry sits exactly on its boundary.
C4_Witness ==
    /\ pc = "resolved"
    /\ match.name # None
    /\ Abs(diff - EntryOf(aspect_config, match.name).angle)
           = EntryOf(aspect_config, match.name).orb

\* C5 as stated: the residual of a match is >= 0 and strictly below the orb.
C5_ResidualStrictlyBelowOrb ==
    (pc = "resolved" /\ match.name # None) =>
        /\ match.orb_diff >= 0
        /\ match.orb_diff < EntryOf(aspect_config, match.name).orb

\* C5 amended: the residual of a match is >= 0 and at most the orb.
C5_ResidualWithinOrb ==
    (pc = "resolved" /\ match.name # None) =>
        /\ match.orb_diff >= 0
        /\ match.orb_diff <= EntryOf(aspect_config, match.name).orb

\* A match below its target whose residual equals the orb.
C5_Witness ==
    /\ pc = "resolved"
    /\ match.name # None
    /\ diff < EntryOf(aspect_config, match.name).angle
    /\ match.orb_diff = EntryOf(aspect_config, match.name).orb

\* The requested ticker has no row in the reference table.
MissingSymbol ==
    /\ call # NoCall
    /\ \A i \in 1 .. Len(SampleIpoTable) : SampleIpoTable[i].Ticker # call.ticker

\* C10: missing symbol -- the call returns the empty table with the output
\* schema, raises nothing and makes no ephemeris lookup.
C10_MissingSymbol ==
    MissingSymbol =>
        /\ pc = "returned"
        /\ returned = DataFrame(<<>>, OutputColumns)
        /\ lookups = 0

\* The missing symbol was asked for with a reversed date range.
C10_Witness ==
    /\ MissingSymbol
    /\ pc = "returned"
    /\ call.start_date > call.end_date

\* C9: date range order-independence -- the call with (start = D2, end = D1),
\* D1 < D2, returns the same sequence of rows as the call with (D1, D2).
C9_OrderIndependence ==
    (fwd # NotRun /\ rev # NotRun) => rev = fwd

\* Both orders returned a table that holds rows.
C9_Witness ==
    /\ fwd.status = "returned"
    /\ rev.status = "returned"
    /\ call.start_date < call.end_date
    /\ Len(fwd.frame.rows) > 1

\* The time the map gives a date, NoTime when it gives none.
TimeOf(map, d) ==
    IF \E i \in 1 .. Len(map) : map[i][1] = d
    THEN map[CHOOSE i \in 1 .. Len(map) : map[i][1] = d][2]
    ELSE NoTime

\* C7: weekday skipping -- run_calculations_per_time on the map of the range
\* returns a merged table, and the table has no row dated on a weekday that
\* has no time in the weekday time map.
C7_WeekdaySkipping ==
    run.status \in {"returned", "raised"} =>
        /\ run.status = "returned"
        /\ \A i \in 1 .. Len(run.frame.rows) :
               weekday_time_map[Weekday(ParseDate(run.frame.rows[i].Date))] # NoTime

\* C8: per-group date filtering -- every row kept for a time group is dated on
\* a date of the group; rows of other dates inside [min, max] are removed.
C8_GroupDateFiltering ==
    run.status = "kept" =>
        \A i \in 1 .. Len(part.rows) :
            /\ ParseDate(part.rows[i].Date) \in Elems(dates_list)
            /\ TimeOf(date_to_time, ParseDate(part.rows[i].Date))
                   = TimeOf(date_to_time, dates_list[1])

\* The analysis of a ticker under the map and the catalogue of the run.
AnalysisOf(ticker) ==
    run_calculations_per_time(ticker, SampleIpoTable, date_to_time, aspect_config)

\* The tickers of the headings shown, in order.
HeadingsShown == SelectSeq(shown, LAMBDA x : x.kind = "heading")

\* C11: batch failure isolation -- no exception of a ticker's analysis ends
\* the loop: the tickers the loop has been through are a prefix of the
\* selection with one heading each, and each of them whose analysis raised has
\* its error message, shown before the heading of the next ticker.
C11_BatchFailureIsolation ==
    /\ run.status # "crashed"
    /\ Len(HeadingsShown) = ticker_pos
    /\ \A i \in 1 .. ticker_pos : HeadingsShown[i].ticker = selected_tickers[i]
    /\ \A i \in 1 .. ticker_pos :
           AnalysisOf(selected_tickers[i]).status = "raised"
               => \E k \in 1 .. Len(shown) - 1 :
                      /\ shown[k] = Shown("heading", selected_tickers[i])
                      /\ shown[k + 1] = Shown("error", selected_tickers[i])

\* The first of two tickers raised and the loop went through the second.
C11_Witness ==
    /\ Len(selected_tickers) = 2
    /\ ticker_pos = 2
    /\ AnalysisOf(selected_tickers[1]).status = "raised"
    /\ shown[2] = Shown("error", selected_tickers[1])
    /\ shown[3] = Shown("heading", selected_tickers[2])

\* The times of day of a map, each once.
DistinctTimes(map) == {map[i][2] : i \in 1 .. Len(map)}

\* The dates a map gives the time t.
DatesAt(map, t) == {map[i][1] : i \in {k \in 1 .. Len(map) : map[k][2] = t}}

Least(S) == CHOOSE x \in S : \A y \in S : x <= y

Greatest(S) == CHOOSE x \in S : \A y \in S : x >= y

\* The successful calls among the recorded ones.
Successful(calls) == SelectSeq(calls, LAMBDA c : c.status = "returned")

\* C12: one scan per distinct time -- for a non-empty map the function makes
\* exactly one successful call of the scan engine per distinct time of the
\* map, with that time and the least and the greatest date of its group, and
\* returns.
C12_OneScanPerDistinctTime ==
    (run.status \in {"returned", "raised"} /\ date_to_time # <<>>) =>
        /\ run.status = "returned"
        /\ \A t \in DistinctTimes(date_to_time) :
               \E i \in 1 .. Len(Successful(scans)) :
                   /\ Successful(scans)[i].time_of_day = t
                   /\ Successful(scans)[i].start_date
                          = Least(DatesAt(date_to_time, t))
                   /\ Successful(scans)[i].end_date
                          = Greatest(DatesAt(date_to_time, t))
                   /\ \A j \in 1 .. Len(Successful(scans)) :
                          Successful(scans)[j].time_of_day = t => j = i
        /\ Len(Successful(scans)) = Cardinality(DistinctTimes(date_to_time))

\* C13: circular distance value -- angular_diff(a, b) is min(d, 360 - d) with
\* d = (a - b) mod 360; so it lies in [0, 180], is 0 when a and b are congruent
\* mod 360 and 180 when they are exactly opposite.
C13_CircularDistanceValue ==
    pc = "measured" =>
        LET d == (lon_a - lon_b) % 360
        IN  /\ distance = Deg(Min2(d, 360 - d))
            /\ distance >= Deg(0)
            /\ distance <= Deg(180)
            /\ d = 0 => distance = Deg(0)
            /\ d = 180 => distance = Deg(180)

\* A negative a and a b beyond a full turn, exactly opposite.
C13_Witness ==
    /\ pc = "measured"
    /\ lon_a < 0
    /\ lon_b >= 360
    /\ (lon_a - lon_b) % 360 = 180
    /\ distance = Deg(180)

\* C14: circular distance is commutative -- angular_diff(a, b) = angular_diff(b, a).
C14_Commutative ==
    pc = "measured" => distance = distance_rev

\* Arguments on both sides of zero whose rotation one way round is more than
\* a half turn.
C14_Witness ==
    /\ pc = "measured"
    /\ lon_a < 0
    /\ lon_b > 0
    /\ (lon_a - lon_b) % 360 > 180
    /\ distance = distance_rev
    /\ distance > 0

\* The names of the transit bodies, and of the reference points of the symbol.
BodyNames == {Capitalize(TRANSIT_BODIES[i]) : i \in 1 .. NumBodies}

NatalNames == {ipo_positions[i][1] : i \in 1 .. Len(ipo_positions)}

ExchangeNames == {NYSE_NATAL_POSITIONS[i][1] : i \in 1 .. Len(NYSE_NATAL_POSITIONS)}

\* How often a pair was evaluated at the instant sampled last.
TimesEvaluated(source, a, b) ==
    Cardinality({i \in 1 .. Len(evaluated) : evaluated[i] = <<source, a, b>>})

\* C15: pair coverage -- at each sampled instant every transit body is
\* evaluated once against every reference point of the symbol and once against
\* each of the four exchange points, every unordered pair of distinct transit
\* bodies is evaluated once, no body is paired with itself, and nothing else
\* is evaluated.
C15_PairCoverage ==
    (current_date # NoDate /\ evaluated # <<>>) =>
        /\ \A a \in BodyNames : \A b \in NatalNames : TimesEvaluated("IPO", a, b) = 1
        /\ Cardinality(ExchangeNames) = 4
        /\ \A a \in BodyNames : \A b \in ExchangeNames : TimesEvaluated("NYSE", a, b) = 1
        /\ \A a \in BodyNames : \A b \in BodyNames :
               IF a = b THEN TimesEvaluated("Transit", a, b) = 0
               ELSE TimesEvaluated("Transit", a, b) + TimesEvaluated("Transit", b, a) = 1
        /\ Len(evaluated) = Cardinality(BodyNames) * Cardinality(NatalNames)
                              + Cardinality(BodyNames) * 4
                              + (Cardinality(BodyNames) * (Cardinality(BodyNames) - 1)) \div 2

\* An instant of the second day of a scan was sampled, transit pair included.
C15_Witness ==
    /\ pc = "scan"
    /\ current_date > start_date + 1
    /\ \E i \in 1 .. Len(evaluated) : evaluated[i][1] = "Transit"
    /\ \E i \in 1 .. Len(evaluated) : evaluated[i][1] = "IPO"
    /\ \E i \in 1 .. Len(evaluated) : evaluated[i] = <<"NYSE", "Moon", "Mars">>

\* The accumulators of the running call are in use.
Live == current_date # NoDate

\* The residuals observed for a key so far in the scan.
ResidualsOf(key) == {observed[key][i].orb_diff : i \in 1 .. Len(observed[key])}

\* C16: residual-tracking map invariant -- at every point of a scan, for every
\* key of prev_orbs, prev_orbs[key] is the smallest residual observed for the
\* key so far.
C16_PrevOrbsHoldsSmallest ==
    Live => \A key \in DOMAIN prev_orbs : prev_orbs[key] = Least(ResidualsOf(key))

\* The same scan made as the first call of a run.
ScanAlone ==
    calculate_aspects_for_ticker(call.ticker, SampleIpoTable, call.start_date,
                                 call.end_date, call.time_of_day, aspect_config)

\* C17: scan isolation -- a call starts its loop on empty accumulators, and
\* it ends as the same scan ends when nothing ran before it, with the same
\* table, whatever calls ran earlier.
C17_ScanIsolation ==
    /\ (pc = "scan" /\ current_date = start_date) => (prev_orbs = <<>> /\ results = <<>>)
    /\ pc = "returned" => (ScanAlone.status = "returned" /\ returned = ScanAlone.frame)

\* A scan returned rows after a scan of another symbol at another time of
\* day had left a filled prev_orbs.
C17_Witness ==
    /\ pc = "returned"
    /\ earlier # NoEarlier
    /\ earlier.ticker # call.ticker
    /\ earlier.time_of_day # call.time_of_day
    /\ Len(returned.rows) > 1

\* A row for the key dated d is among the emitted rows.
EmittedOn(rows, key, d) ==
    \E i \in 1 .. Len(rows) : KeyOfRow(rows[i]) = key /\ rows[i].Date = StrfTime(d)

\* The observations of a key on dates before d, and the latest of a set.
EarlierThan(key, d) == {o \in Elems(observed[key]) : o.date < d}

MostRecent(S) == CHOOSE o \in S : \A q \in S : q.date <= o.date

\* C18: exact emission rule across days -- a row for key k dated d is emitted
\* iff k matches on d and either k matched on no earlier date of the scan or
\* its residual on d is strictly below its residual on the most recent earlier
\* date on which it matched; a row carries the residual of its date.
C18_EmissionRule ==
    Live =>
        /\ \A key \in DOMAIN observed : \A o \in Elems(observed[key]) :
               EmittedOn(results, key, o.date)
                   <=> \/ EarlierThan(key, o.date) = {}
                       \/ o.orb_diff < MostRecent(EarlierThan(key, o.date)).orb_diff
        /\ \A i \in 1 .. Len(results) :
               /\ KeyOfRow(results[i]) \in DOMAIN observed
               /\ [date |-> ParseDate(results[i].Date), orb_diff |-> ResidualOfRow(results[i])]
                      \in Elems(observed[KeyOfRow(results[i])])

\* A key matched on three days with a residual that never shrank and grew at
\* least once, and has the row of its first day only.
C18_Witness ==
    /\ pc = "returned"
    /\ Live
    /\ \E key \in DOMAIN observed :
           /\ Len(observed[key]) = 3
           /\ observed[key][1].orb_diff <= observed[key][2].orb_diff
           /\ observed[key][2].orb_diff <= observed[key][3].orb_diff
           /\ observed[key][1].orb_diff < observed[key][3].orb_diff
           /\ Cardinality({i \in 1 .. Len(results) : KeyOfRow(results[i]) = key}) = 1

\* The first date on which a key has its smallest residual of the scan.
FirstTightest(key) ==
    Least({o.date : o \in {q \in Elems(observed[key]) :
                               q.orb_diff = Least(ResidualsOf(key))}})

\* C19: the tightest match is never lost -- the table a call returns has, for
\* every key that matched during the call, a row dated on the first date on
\* which the key had its smallest residual, with that residual.
C19_TightestMatchKept ==
    (pc = "returned" /\ Live) =>
        \A key \in DOMAIN observed :
            \E i \in 1 .. Len(returned.rows) :
                /\ KeyOfRow(returned.rows[i]) = key
                /\ returned.rows[i].Date = StrfTime(FirstTightest(key))
                /\ ResidualOfRow(returned.rows[i]) = Least(ResidualsOf(key))

\* A key had a larger residual both before and after its smallest one.
C19_Witness ==
    /\ pc = "returned"
    /\ Live
    /\ \E key \in DOMAIN observed :
           /\ Len(observed[key]) = 3
           /\ observed[key][1].orb_diff > observed[key][2].orb_diff
           /\ observed[key][3].orb_diff > observed[key][2].orb_diff
           /\ EmittedOn(returned.rows, key, observed[key][2].date)

====
